---- MODULE Spec2Model ----
(***************************************************************************)
(* Header mapper: the matching engine (services/header_matcher.py) and the *)
(* multi-row header detector (services/excel_header_extractor.py).         *)
(*                                                                         *)
(* Strings are sequences of one-character strings.  Confidences and the    *)
(* auto-map / review thresholds are kept in hundredths (0.95 is 95): every *)
(* confidence the program produces is score/100.0, 0.95, 1.0 or 0.0.       *)
(***************************************************************************)
EXTENDS Integers, Sequences, FiniteSets, TLC

VARIABLES schema, config, grid, op, args, ret

vars == <<schema, config, grid, op, args, ret>>

(***************************************************************************)
(* Bounds                                                                  *)
(***************************************************************************)
MaxNormLen == 5
MaxSchema == 2
MaxTopN == 2
MaxRows == 6
MaxSheetRows == 2
MaxHeaders == 2

Max(a, b) == IF a >= b THEN a ELSE b
Min(a, b) == IF a <= b THEN a ELSE b

(***************************************************************************)
(* Python str primitives used by the program                               *)
(***************************************************************************)
UpperToLower ==
  [c \in {"A", "B", "C", "D", "M", "N", "X"} |->
     CASE c = "A" -> "a" [] c = "B" -> "b" [] c = "C" -> "c" [] c = "D" -> "d"
       [] c = "M" -> "m" [] c = "N" -> "n" [] c = "X" -> "x"]

\* str.lower()
lower(s) == [i \in 1..Len(s) |-> IF s[i] \in DOMAIN UpperToLower THEN UpperToLower[s[i]] ELSE s[i]]

\* str.replace(old, new) for one-character old and new
replace(s, old, new) == [i \in 1..Len(s) |-> IF s[i] = old THEN new ELSE s[i]]

Whitespace == {" "}

RECURSIVE lstrip(_)
lstrip(s) == IF s # <<>> /\ Head(s) \in Whitespace THEN lstrip(Tail(s)) ELSE s

RECURSIVE rstrip(_)
rstrip(s) ==
  IF s # <<>> /\ s[Len(s)] \in Whitespace THEN rstrip(SubSeq(s, 1, Len(s) - 1)) ELSE s

\* str.strip()
strip(s) == rstrip(lstrip(s))

\* str.replace("  ", " "): one left-to-right pass over non-overlapping
\* occurrences; the text produced by a replacement is not scanned again.
RECURSIVE replace_double_space(_)
replace_double_space(s) ==
  IF Len(s) < 2 THEN s
  ELSE IF s[1] = " " /\ s[2] = " "
       THEN <<" ">> \o replace_double_space(SubSeq(s, 3, Len(s)))
       ELSE <<s[1]>> \o replace_double_space(Tail(s))

(***************************************************************************)
(* HeaderMatcher._normalize_header                                         *)
(***************************************************************************)
_normalize_header(header) ==
  IF header = <<>> THEN <<>>
  ELSE replace_double_space(
         strip(
           replace(replace(replace(replace(replace(replace(
             lower(header), "_", " "), "-", " "), ".", " "), "(", " "), ")", " "), "/", " ")))

(***************************************************************************)
(* fuzzywuzzy.fuzz as called by the matcher                                *)
(***************************************************************************)
\* One row of the longest-common-subsequence table: prev is row i-1 and cur
\* the part of row i built so far, both indexed by column + 1.
RECURSIVE lcs_row(_, _, _, _)
lcs_row(prev, ai, b, cur) ==
  IF Len(cur) = Len(b) + 1 THEN cur
  ELSE LET j == Len(cur)
       IN  lcs_row(prev, ai, b,
                   Append(cur, IF ai = b[j] THEN prev[j] + 1 ELSE Max(prev[j + 1], cur[j])))

RECURSIVE lcs_rows(_, _, _, _)
lcs_rows(a, b, i, prev) ==
  IF i > Len(a) THEN prev[Len(b) + 1]
  ELSE lcs_rows(a, b, i + 1, lcs_row(prev, a[i], b, <<0>>))

\* number of matching characters M of the two strings
lcs(a, b) == lcs_rows(a, b, 1, [j \in 1..(Len(b) + 1) |-> 0])

\* utils.intr(100 * 2M/T): int(round(x)), round half to even
intr_ratio(m, t) ==
  LET q == (200 * m) \div t
      r == (200 * m) % t
  IN  IF 2 * r > t \/ (2 * r = t /\ q % 2 = 1) THEN q + 1 ELSE q

\* fuzz.ratio: 100 for equal strings, 0 when one is empty, else the rounded
\* percentage 2M/T of matching characters
ratio(s1, s2) ==
  IF s1 = s2 THEN 100
  ELSE IF Len(s1) = 0 \/ Len(s2) = 0 THEN 0
  ELSE intr_ratio(lcs(s1, s2), Len(s1) + Len(s2))

\* code points of the characters the model uses, in increasing order
AsciiOrder ==
  <<" ", "%", "(", ")", "-", ".", "/", "A", "B", "C", "D", "M", "N", "X", "_",
    "a", "b", "c", "d", "e", "f", "g", "h", "i", "j", "m", "n", "x", "y">>

ord(c) == CHOOSE i \in 1..Len(AsciiOrder) : AsciiOrder[i] = c

NonWord == {" ", "%", "(", ")", "-", ".", "/"}

\* utils.full_process: non-word characters to spaces, lower case, strip
full_process(s) ==
  strip(lower([i \in 1..Len(s) |-> IF s[i] \in NonWord THEN " " ELSE s[i]]))

\* str.split(): the maximal runs of non-whitespace characters
RECURSIVE split(_, _, _)
split(s, cur, acc) ==
  IF s = <<>> THEN (IF cur = <<>> THEN acc ELSE Append(acc, cur))
  ELSE IF Head(s) \in Whitespace
       THEN split(Tail(s), <<>>, IF cur = <<>> THEN acc ELSE Append(acc, cur))
       ELSE split(Tail(s), Append(cur, Head(s)), acc)

tokens(s) == LET t == split(s, <<>>, <<>>) IN {t[i] : i \in 1..Len(t)}

\* s < t for Python strings
RECURSIVE str_less(_, _)
str_less(s, t) ==
  IF t = <<>> THEN FALSE
  ELSE IF s = <<>> THEN TRUE
  ELSE IF Head(s) # Head(t) THEN ord(Head(s)) < ord(Head(t))
  ELSE str_less(Tail(s), Tail(t))

\* " ".join(sorted(toks))
RECURSIVE join_sorted(_)
join_sorted(toks) ==
  IF toks = {} THEN <<>>
  ELSE LET first == CHOOSE t \in toks : \A u \in toks \ {t} : str_less(t, u)
           rest == join_sorted(toks \ {first})
       IN  IF rest = <<>> THEN first ELSE first \o <<" ">> \o rest

\* fuzz.token_set_ratio
token_set_ratio(s1, s2) ==
  LET p1 == full_process(s1)
      p2 == full_process(s2)
  IN  IF p1 = <<>> \/ p2 = <<>> THEN 0
      ELSE LET tokens1 == tokens(p1)
               tokens2 == tokens(p2)
               sorted_sect == join_sorted(tokens1 \cap tokens2)
               sorted_1to2 == join_sorted(tokens1 \ tokens2)
               sorted_2to1 == join_sorted(tokens2 \ tokens1)
               combined_1to2 == strip(sorted_sect \o <<" ">> \o sorted_1to2)
               combined_2to1 == strip(sorted_sect \o <<" ">> \o sorted_2to1)
           IN  Max(ratio(sorted_sect, combined_1to2),
                   Max(ratio(sorted_sect, combined_2to1),
                       ratio(combined_1to2, combined_2to1)))

(***************************************************************************)
(* models: MappingResult, ThresholdConfig, MatchingConfig                  *)
(***************************************************************************)
MappingResult(user_column, canonical_column, confidence, match_type, match_details, recommended_action) ==
  [user_column |-> user_column,
   canonical_column |-> canonical_column,
   confidence |-> confidence,
   match_type |-> match_type,
   match_details |-> match_details,
   recommended_action |-> recommended_action]

ThresholdConfig(auto, review) == [auto_map_threshold |-> auto, review_threshold |-> review]

\* None, as the default of an argument or field
None == [type |-> "NoneType", text |-> <<>>]

\* MatchingConfig.__post_init__: thresholds left at None get their defaults
__post_init__(self) ==
  [self EXCEPT
     !.required_thresholds = IF @ = None THEN ThresholdConfig(90, 75) ELSE @,
     !.optional_thresholds = IF @ = None THEN ThresholdConfig(85, 70) ELSE @]

MatchingConfig(fuzzy_min_threshold, required_thresholds, optional_thresholds) ==
  __post_init__([fuzzy_min_threshold |-> fuzzy_min_threshold, required_thresholds |-> required_thresholds, optional_thresholds |-> optional_thresholds])

\* HeaderMatcher.__init__: the schema as given, the config or MatchingConfig()
__init__(schema_arg, config_arg) ==
  [schema |-> schema_arg,
   config |-> IF config_arg # None THEN config_arg ELSE MatchingConfig(60, None, None)]

\* MatchingConfig() with __post_init__ applied
DefaultMatchingConfig ==
  [fuzzy_min_threshold |-> 60,
   required_thresholds |-> ThresholdConfig(90, 75),
   optional_thresholds |-> ThresholdConfig(85, 70)]

(***************************************************************************)
(* HeaderMatcher.  self.schema is the sequence of the dict's values in     *)
(* iteration (insertion) order; self.config is the MatchingConfig.         *)
(***************************************************************************)
\* variant: strict comparisons against the thresholds
_determine_action_strict(confidence, is_required) ==
  LET thresholds == IF is_required THEN config.required_thresholds
                    ELSE config.optional_thresholds
  IN  IF confidence > thresholds.auto_map_threshold THEN "AutoMap"
      ELSE IF confidence > thresholds.review_threshold THEN "Review"
      ELSE "ManualMap"

_determine_action(confidence, is_required) ==
  LET thresholds == IF is_required THEN config.required_thresholds
                    ELSE config.optional_thresholds
  IN  IF confidence >= thresholds.auto_map_threshold THEN "AutoMap"
      ELSE IF confidence >= thresholds.review_threshold THEN "Review"
      ELSE "ManualMap"

\* variant: the aliases are left out of the pool
entry_candidates_without_aliases(normalized_user_header, entry) ==
  <<[canonical |-> entry.canonical_name,
     target |-> entry.canonical_name,
     score |-> ratio(normalized_user_header, _normalize_header(entry.canonical_name)),
     is_required |-> entry.required],
    [canonical |-> entry.canonical_name,
     target |-> <<"description: ">> \o entry.description,
     score |-> token_set_ratio(normalized_user_header,
                               _normalize_header(entry.description)) \div 2,
     is_required |-> entry.required]>>

\* the candidates one schema entry appends, in order: canonical name, each
\* alias, description (token_set_ratio // 2)
entry_candidates(normalized_user_header, entry) ==
  <<[canonical |-> entry.canonical_name,
     target |-> entry.canonical_name,
     score |-> ratio(normalized_user_header, _normalize_header(entry.canonical_name)),
     is_required |-> entry.required]>>
  \o [a \in 1..Len(entry.aliases) |->
       [canonical |-> entry.canonical_name,
        target |-> entry.aliases[a],
        score |-> ratio(normalized_user_header, _normalize_header(entry.aliases[a])),
        is_required |-> entry.required]]
  \o <<[canonical |-> entry.canonical_name,
        target |-> <<"description: ">> \o entry.description,
        score |-> token_set_ratio(normalized_user_header,
                                  _normalize_header(entry.description)) \div 2,
        is_required |-> entry.required]>>

\* the candidates list after the loop over self.schema.items()
RECURSIVE fuzzy_candidates(_, _)
fuzzy_candidates(normalized_user_header, k) ==
  IF k > Len(schema) THEN <<>>
  ELSE entry_candidates(normalized_user_header, schema[k])
         \o fuzzy_candidates(normalized_user_header, k + 1)

\* variant: the last item with the largest key
RECURSIVE py_max_last(_, _, _)
py_max_last(candidates, i, best) ==
  IF i > Len(candidates) THEN best
  ELSE py_max_last(candidates, i + 1,
                   IF candidates[i].score >= best.score THEN candidates[i] ELSE best)

\* max(candidates, key=lambda x: x[2]): the first item with the largest key
RECURSIVE py_max(_, _, _)
py_max(candidates, i, best) ==
  IF i > Len(candidates) THEN best
  ELSE py_max(candidates, i + 1,
              IF candidates[i].score > best.score THEN candidates[i] ELSE best)

\* variant: the fuzzy layer recommends AutoMap as the other layers do
_find_best_fuzzy_match_auto(user_header, normalized_user_header) ==
  LET candidates == fuzzy_candidates(normalized_user_header, 1)
  IN  IF candidates = <<>> THEN <<>>
      ELSE LET best == py_max(candidates, 2, candidates[1])
           IN  IF best.score >= config.fuzzy_min_threshold
               THEN <<MappingResult(user_header, best.canonical, best.score, "FuzzyMatch",
                                    <<"Fuzzy match against", best.target, best.score>>,
                                    "AutoMap")>>
               ELSE <<>>

\* variant: the winning score must exceed fuzzy_min_threshold
_find_best_fuzzy_match_gt(user_header, normalized_user_header) ==
  LET candidates == fuzzy_candidates(normalized_user_header, 1)
  IN  IF candidates = <<>> THEN <<>>
      ELSE LET best == py_max(candidates, 2, candidates[1])
           IN  IF best.score > config.fuzzy_min_threshold
               THEN <<MappingResult(user_header, best.canonical, best.score, "FuzzyMatch",
                                    <<"Fuzzy match against", best.target, best.score>>,
                                    _determine_action(best.score, best.is_required))>>
               ELSE <<>>

\* Optional[MappingResult]: <<>> is None, <<r>> is the result r
_find_best_fuzzy_match(user_header, normalized_user_header) ==
  LET candidates == fuzzy_candidates(normalized_user_header, 1)
  IN  IF candidates = <<>> THEN <<>>
      ELSE LET best == py_max(candidates, 2, candidates[1])
           IN  IF best.score >= config.fuzzy_min_threshold
               THEN <<MappingResult(user_header, best.canonical, best.score, "FuzzyMatch",
                                    <<"Fuzzy match against", best.target, best.score>>,
                                    _determine_action(best.score, best.is_required))>>
               ELSE <<>>

\* variant: the exact layer reports the alias layer's confidence
RECURSIVE exact_layer_conf95(_, _, _)
exact_layer_conf95(user_header, normalized_user_header, k) ==
  IF k > Len(schema) THEN <<>>
  ELSE IF _normalize_header(schema[k].canonical_name) = normalized_user_header
       THEN <<MappingResult(user_header, schema[k].canonical_name, 95, "ExactMatch",
                            <<"Exact match to canonical name">>, "AutoMap")>>
       ELSE exact_layer_conf95(user_header, normalized_user_header, k + 1)

\* Layer 1: the first entry whose normalized canonical name equals the header
RECURSIVE exact_layer(_, _, _)
exact_layer(user_header, normalized_user_header, k) ==
  IF k > Len(schema) THEN <<>>
  ELSE IF _normalize_header(schema[k].canonical_name) = normalized_user_header
       THEN <<MappingResult(user_header, schema[k].canonical_name, 100, "ExactMatch",
                            <<"Exact match to canonical name">>, "AutoMap")>>
       ELSE exact_layer(user_header, normalized_user_header, k + 1)

\* variant: the alias layer reports the alias as the canonical column
RECURSIVE alias_layer_returns_alias(_, _, _, _)
alias_layer_returns_alias(user_header, normalized_user_header, k, a) ==
  IF k > Len(schema) THEN <<>>
  ELSE IF a > Len(schema[k].aliases)
       THEN alias_layer_returns_alias(user_header, normalized_user_header, k + 1, 1)
       ELSE IF _normalize_header(schema[k].aliases[a]) = normalized_user_header
            THEN <<MappingResult(user_header, schema[k].aliases[a], 95, "AliasMatch",
                                 <<"Matched alias", schema[k].aliases[a]>>, "AutoMap")>>
            ELSE alias_layer_returns_alias(user_header, normalized_user_header, k, a + 1)

\* Layer 2: the first alias, in schema order then alias order, that equals it
RECURSIVE alias_layer(_, _, _, _)
alias_layer(user_header, normalized_user_header, k, a) ==
  IF k > Len(schema) THEN <<>>
  ELSE IF a > Len(schema[k].aliases)
       THEN alias_layer(user_header, normalized_user_header, k + 1, 1)
       ELSE IF _normalize_header(schema[k].aliases[a]) = normalized_user_header
            THEN <<MappingResult(user_header, schema[k].canonical_name, 95, "AliasMatch",
                                 <<"Matched alias", schema[k].aliases[a]>>, "AutoMap")>>
            ELSE alias_layer(user_header, normalized_user_header, k, a + 1)

\* variant: the alias layer is consulted before the exact layer
map_single_header_alias_first(user_header) ==
  LET normalized_user_header == _normalize_header(user_header)
      exact == exact_layer(user_header, normalized_user_header, 1)
      alias == alias_layer(user_header, normalized_user_header, 1, 1)
      best_match == _find_best_fuzzy_match(user_header, normalized_user_header)
  IN  IF alias # <<>> THEN alias[1]
      ELSE IF exact # <<>> THEN exact[1]
      ELSE IF best_match # <<>> THEN best_match[1]
      ELSE MappingResult(user_header, <<>>, 0, "NoMatch",
                         <<"No suitable match found">>, "ManualMap")

map_single_header(user_header) ==
  LET normalized_user_header == _normalize_header(user_header)
      exact == exact_layer(user_header, normalized_user_header, 1)
      alias == alias_layer(user_header, normalized_user_header, 1, 1)
      best_match == _find_best_fuzzy_match(user_header, normalized_user_header)
  IN  IF exact # <<>> THEN exact[1]
      ELSE IF alias # <<>> THEN alias[1]
      ELSE IF best_match # <<>> THEN best_match[1]
      ELSE MappingResult(user_header, <<>>, 0, "NoMatch",
                         <<"No suitable match found">>, "ManualMap")

\* the inner loop of get_top_matches: the largest alias score, starting at 0
RECURSIVE max_alias_score(_, _, _, _)
max_alias_score(normalized_user_header, aliases, a, best) ==
  IF a > Len(aliases) THEN best
  ELSE LET alias_score == ratio(normalized_user_header, _normalize_header(aliases[a]))
       IN  max_alias_score(normalized_user_header, aliases, a + 1,
             IF alias_score > best.max_alias_score
             THEN [max_alias_score |-> alias_score, best_alias |-> aliases[a]]
             ELSE best)

\* the candidates list of get_top_matches after the loop over the schema
RECURSIVE top_candidates(_, _, _)
top_candidates(user_header, normalized_user_header, k) ==
  IF k > Len(schema) THEN <<>>
  ELSE LET canonical_score == ratio(normalized_user_header,
                                    _normalize_header(schema[k].canonical_name))
           m == max_alias_score(normalized_user_header, schema[k].aliases, 1,
                                [max_alias_score |-> 0, best_alias |-> <<>>])
           best_score == Max(canonical_score, m.max_alias_score)
           match_target == IF m.max_alias_score > canonical_score THEN m.best_alias
                           ELSE schema[k].canonical_name
       IN  (IF best_score >= config.fuzzy_min_threshold
            THEN <<MappingResult(user_header, schema[k].canonical_name, best_score,
                                 "FuzzyMatch", <<"Matched against", match_target>>,
                                 _determine_action(best_score, schema[k].required))>>
            ELSE <<>>)
           \o top_candidates(user_header, normalized_user_header, k + 1)

\* variant: ascending order
RECURSIVE insert_asc(_, _)
insert_asc(sorted, r) ==
  IF sorted = <<>> THEN <<r>>
  ELSE IF Head(sorted).confidence <= r.confidence
       THEN <<Head(sorted)>> \o insert_asc(Tail(sorted), r)
       ELSE <<r>> \o sorted

\* sorted(..., key=confidence, reverse=True): stable, so an item goes after
\* every item already placed whose confidence is not smaller
RECURSIVE insert_desc(_, _)
insert_desc(sorted, r) ==
  IF sorted = <<>> THEN <<r>>
  ELSE IF Head(sorted).confidence >= r.confidence
       THEN <<Head(sorted)>> \o insert_desc(Tail(sorted), r)
       ELSE <<r>> \o sorted

RECURSIVE sorted_by_confidence_desc(_, _, _)
sorted_by_confidence_desc(items, i, acc) ==
  IF i > Len(items) THEN acc
  ELSE sorted_by_confidence_desc(items, i + 1, insert_desc(acc, items[i]))

\* items[:n]
py_slice_to(items, n) ==
  IF n >= 0 THEN SubSeq(items, 1, Min(n, Len(items)))
  ELSE SubSeq(items, 1, Max(0, Len(items) + n))

get_top_matches(user_header, top_n) ==
  LET normalized_user_header == _normalize_header(user_header)
      candidates == top_candidates(user_header, normalized_user_header, 1)
  IN  py_slice_to(sorted_by_confidence_desc(candidates, 1, <<>>), top_n)

\* variant: each result is put in front of the earlier ones
RECURSIVE map_headers_prepend(_, _, _)
map_headers_prepend(user_headers, i, results) ==
  IF i > Len(user_headers) THEN results
  ELSE map_headers_prepend(user_headers, i + 1, <<map_single_header(user_headers[i])>> \o results)

\* the loop of map_headers: results.append(self.map_single_header(user_header))
RECURSIVE map_headers_loop(_, _, _)
map_headers_loop(user_headers, i, results) ==
  IF i > Len(user_headers) THEN results
  ELSE map_headers_loop(user_headers, i + 1, Append(results, map_single_header(user_headers[i])))

map_headers(user_headers) == map_headers_loop(user_headers, 1, <<>>)

(***************************************************************************)
(* ExcelHeaderExtractor.  A cell value is [type, text]: its Python type    *)
(* and its str().  grid.data is the sheet as a list of rows (rows shorter  *)
(* than the widest one read as None beyond their end).                     *)
(***************************************************************************)
NoneValue == [type |-> "NoneType", text |-> <<>>]

\* isinstance(value, (int, float, datetime)); bool is a subclass of int
_is_numeric_value(value) == value.type \in {"int", "float", "datetime", "bool"}

\* row[col_idx] if col_idx < len(row) else None, col_idx counted from 0
cell_or_none(row, col_idx) == IF col_idx < Len(row) THEN row[col_idx + 1] ELSE NoneValue

\* max(len(row) for row in data)
RECURSIVE max_len(_, _, _)
max_len(data, i, best) ==
  IF i > Len(data) THEN best ELSE max_len(data, i + 1, Max(best, Len(data[i])))

\* the inner loop over the columns of one row
RECURSIVE scan_row(_, _, _, _)
scan_row(row, max_cols, col_idx, acc) ==
  IF col_idx >= max_cols THEN acc
  ELSE LET value == cell_or_none(row, col_idx)
       IN  scan_row(row, max_cols, col_idx + 1,
             IF value.type = "NoneType" THEN acc
             ELSE [non_empty_cells |-> acc.non_empty_cells + 1,
                   has_numeric_data |-> acc.has_numeric_data \/ _is_numeric_value(value),
                   has_text_data |->
                     \/ acc.has_text_data
                     \/ (~_is_numeric_value(value) /\ value.type = "str"
                           /\ strip(value.text) # <<>>)])

RowScan(row, max_cols) ==
  scan_row(row, max_cols, 0,
           [non_empty_cells |-> 0, has_numeric_data |-> FALSE, has_text_data |-> FALSE])

\* variant: at least 30% of the width
at_least_30_percent(non_empty_cells, max_cols) == 10 * non_empty_cells >= 3 * max_cols

\* non_empty_cells > max_cols * 0.3
over_30_percent(non_empty_cells, max_cols) == 10 * non_empty_cells > 3 * max_cols

\* services/excel_header_extractor.py: the loop over row_idx (from 0), with
\* the value of data_start_row so far; returns data_start_row after the loop
RECURSIVE detect_loop(_, _, _, _, _)
detect_loop(data, max_cols, max_header_rows, row_idx, data_start_row) ==
  IF row_idx >= max_header_rows \/ row_idx >= Len(data) THEN data_start_row
  ELSE LET r == RowScan(data[row_idx + 1], max_cols)
       IN  IF r.has_numeric_data /\ over_30_percent(r.non_empty_cells, max_cols)
           THEN row_idx + 1
           ELSE detect_loop(data, max_cols, max_header_rows, row_idx + 1,
                            IF r.has_text_data /\ r.non_empty_cells > 0
                            THEN row_idx + 2 ELSE data_start_row)

\* variant: every row of the grid is scanned
_detect_header_row_count_all_rows(data, max_cols) ==
  LET max_header_rows == Len(data)
      data_start_row == detect_loop(data, max_cols, max_header_rows, 0, 1)
  IN  Max(1, data_start_row - 1)

_detect_header_row_count(data, max_cols) ==
  LET max_header_rows == Min(5, Len(data))
      data_start_row == detect_loop(data, max_cols, max_header_rows, 0, 1)
  IN  Max(1, data_start_row - 1)

\* header_mapper/services/excel_header_extractor.py reads an openpyxl
\* worksheet: rows and columns count from 1, a cell outside the stored
\* values is None
\* worksheet.max_row and max_column are 1 for a worksheet without cells
ws_max_row(worksheet) ==
  IF max_len(worksheet.data, 1, 0) = 0 THEN 1 ELSE Len(worksheet.data)

ws_max_column(worksheet) ==
  IF max_len(worksheet.data, 1, 0) = 0 THEN 1 ELSE max_len(worksheet.data, 1, 0)

ws_cell(worksheet, row, col) ==
  IF row <= Len(worksheet.data) THEN cell_or_none(worksheet.data[row], col - 1)
  ELSE NoneValue

RECURSIVE ws_scan_row(_, _, _, _)
ws_scan_row(worksheet, row, col, acc) ==
  IF col > ws_max_column(worksheet) THEN acc
  ELSE LET value == ws_cell(worksheet, row, col)
       IN  ws_scan_row(worksheet, row, col + 1,
             IF value.type = "NoneType" THEN acc
             ELSE [non_empty_cells |-> acc.non_empty_cells + 1,
                   has_numeric_data |-> acc.has_numeric_data \/ _is_numeric_value(value),
                   has_text_data |->
                     \/ acc.has_text_data
                     \/ (~_is_numeric_value(value) /\ value.type = "str"
                           /\ strip(value.text) # <<>>)])

RECURSIVE ws_detect_loop(_, _, _, _)
ws_detect_loop(worksheet, max_header_rows, row, data_start_row) ==
  IF row > max_header_rows THEN data_start_row
  ELSE LET r == ws_scan_row(worksheet, row, 1,
                 [non_empty_cells |-> 0, has_numeric_data |-> FALSE, has_text_data |-> FALSE])
       IN  IF r.has_numeric_data
                /\ over_30_percent(r.non_empty_cells, ws_max_column(worksheet))
           THEN row
           ELSE ws_detect_loop(worksheet, max_header_rows, row + 1,
                               IF r.has_text_data /\ r.non_empty_cells > 0
                               THEN row + 1 ELSE data_start_row)

_detect_header_row_count_openpyxl(worksheet) ==
  LET max_header_rows == Min(5, ws_max_row(worksheet))
      data_start_row == ws_detect_loop(worksheet, max_header_rows, 1, 1)
  IN  Max(1, data_start_row - 1)

(***************************************************************************)
(* models: SheetHeaders                                                    *)
(***************************************************************************)
SheetHeaders(sheet_name, headers, header_row_count) ==
  [sheet_name |-> sheet_name, headers |-> headers, header_row_count |-> header_row_count]

\* variant: parts joined without a separator
RECURSIVE join_nothing(_)
join_nothing(parts) ==
  IF parts = <<>> THEN <<>> ELSE parts[1] \o join_nothing(Tail(parts))

\* " ".join(parts)
RECURSIVE join_space(_)
join_space(parts) ==
  IF parts = <<>> THEN <<>>
  ELSE IF Len(parts) = 1 THEN parts[1]
  ELSE parts[1] \o <<" ">> \o join_space(Tail(parts))

(***************************************************************************)
(* services/excel_header_extractor.py: _build_merged_header and            *)
(* _extract_sheet_headers over the list of rows (no merged-cell data)      *)
(***************************************************************************)
\* the loop over row_idx (from 0) collecting header_parts
RECURSIVE header_parts_loop(_, _, _, _, _)
header_parts_loop(data, header_row_count, col_idx, row_idx, header_parts) ==
  IF row_idx >= header_row_count \/ row_idx >= Len(data) THEN header_parts
  ELSE LET value == cell_or_none(data[row_idx + 1], col_idx)
           text == strip(value.text)
       IN  header_parts_loop(data, header_row_count, col_idx, row_idx + 1,
             IF value.type # "NoneType" /\ text # <<>>
             THEN Append(header_parts, text) ELSE header_parts)

_build_merged_header(data, header_row_count, col_idx) ==
  join_space(header_parts_loop(data, header_row_count, col_idx, 0, <<>>))

\* the loop over col_idx appending the non-blank merged headers
RECURSIVE headers_loop(_, _, _, _, _)
headers_loop(data, header_row_count, max_cols, col_idx, headers) ==
  IF col_idx >= max_cols THEN headers
  ELSE LET merged_header == _build_merged_header(data, header_row_count, col_idx)
       IN  headers_loop(data, header_row_count, max_cols, col_idx + 1,
             IF strip(merged_header) # <<>> THEN Append(headers, merged_header)
             ELSE headers)

_extract_sheet_headers(data, sheet_name) ==
  IF Len(data) = 0 THEN SheetHeaders(sheet_name, <<>>, 0)
  ELSE LET max_cols == max_len(data, 1, 0)
       IN  IF max_cols = 0 THEN SheetHeaders(sheet_name, <<>>, 0)
           ELSE LET header_row_count == _detect_header_row_count(data, max_cols)
                IN  SheetHeaders(sheet_name,
                                 headers_loop(data, header_row_count, max_cols, 0, <<>>),
                                 header_row_count)

(***************************************************************************)
(* header_mapper/services/excel_header_extractor.py: the same over an      *)
(* openpyxl worksheet; worksheet.merged_cells is the sequence of merged    *)
(* ranges [min_row, max_row, min_col, max_col]                             *)
(***************************************************************************)
in_range(merged_range, row, column) ==
  /\ merged_range.min_row <= row /\ row <= merged_range.max_row
  /\ merged_range.min_col <= column /\ column <= merged_range.max_col

_is_merged_cell(worksheet, row, column) ==
  \E i \in 1..Len(worksheet.merged_cells) : in_range(worksheet.merged_cells[i], row, column)

\* variant: a merged cell reads its own value
own_cell_value(worksheet, row, column) ==
  LET cell == ws_cell(worksheet, row, column)
  IN  IF cell.type # "NoneType" THEN cell.text ELSE <<>>

\* str(top_left_cell.value) of the first range holding the cell, "" for None
_get_merged_cell_value(worksheet, row, column) ==
  LET hits == {i \in 1..Len(worksheet.merged_cells) :
                 in_range(worksheet.merged_cells[i], row, column)}
  IN  IF hits = {} THEN <<>>
      ELSE LET merged_range == worksheet.merged_cells[CHOOSE i \in hits : \A j \in hits : i <= j]
               top_left_cell == ws_cell(worksheet, merged_range.min_row, merged_range.min_col)
           IN  IF top_left_cell.type # "NoneType" THEN top_left_cell.text ELSE <<>>

RECURSIVE ws_header_parts_loop(_, _, _, _, _)
ws_header_parts_loop(worksheet, header_row_count, column, row, header_parts) ==
  IF row > header_row_count THEN header_parts
  ELSE LET cell == ws_cell(worksheet, row, column)
           text == IF _is_merged_cell(worksheet, row, column)
                   THEN strip(_get_merged_cell_value(worksheet, row, column))
                   ELSE IF cell.type # "NoneType" THEN strip(cell.text) ELSE <<>>
       IN  ws_header_parts_loop(worksheet, header_row_count, column, row + 1,
             IF text # <<>> THEN Append(header_parts, text) ELSE header_parts)

_build_merged_header_openpyxl(worksheet, header_row_count, column) ==
  join_space(ws_header_parts_loop(worksheet, header_row_count, column, 1, <<>>))

\* variant: every column gets an entry
RECURSIVE ws_headers_loop_keep_blank(_, _, _, _)
ws_headers_loop_keep_blank(worksheet, header_row_count, col, headers) ==
  IF col > ws_max_column(worksheet) THEN headers
  ELSE ws_headers_loop_keep_blank(worksheet, header_row_count, col + 1,
         Append(headers, _build_merged_header_openpyxl(worksheet, header_row_count, col)))

RECURSIVE ws_headers_loop(_, _, _, _)
ws_headers_loop(worksheet, header_row_count, col, headers) ==
  IF col > ws_max_column(worksheet) THEN headers
  ELSE LET merged_header == _build_merged_header_openpyxl(worksheet, header_row_count, col)
       IN  ws_headers_loop(worksheet, header_row_count, col + 1,
             IF strip(merged_header) # <<>> THEN Append(headers, merged_header)
             ELSE headers)

_extract_sheet_headers_openpyxl(worksheet, sheet_name) ==
  IF ws_max_row(worksheet) = 0 \/ ws_max_column(worksheet) = 0
  THEN SheetHeaders(sheet_name, <<>>, 0)
  ELSE LET header_row_count == _detect_header_row_count_openpyxl(worksheet)
       IN  SheetHeaders(sheet_name,
                        ws_headers_loop(worksheet, header_row_count, 1, <<>>),
                        header_row_count)

(***************************************************************************)
(* Inputs of the matcher specification                                     *)
(***************************************************************************)
ColumnSchema(canonical_name, description, required, aliases) ==
  [canonical_name |-> canonical_name,
   description |-> description,
   data_type |-> <<>>,
   required |-> required,
   example_values |-> <<>>,
   aliases |-> aliases]

Str_ab == <<"a", "b">>
Str_xy == <<"x", "y">>
Str_A_b == <<"A", "_", "b">>
Str_a_b == <<"a", "_", "b">>
Str_A_dash_b == <<"A", "-", "b">>
Str_a_dot_b == <<"a", ".", "b">>
Str_c_d == <<"c", " ", "d">>
Str_m_n == <<"m", " ", "n">>
Str_xy_ab == <<"x", "y", " ", "a", "b">>
Str_abcdefghi == <<"a", "b", "c", "d", "e", "f", "g", "h", "i">>
Str_abcdefghij == <<"a", "b", "c", "d", "e", "f", "g", "h", "i", "j">>

\* canonical_name is non-empty for every entry used in matching
SchemaEntries ==
  { ColumnSchema(Str_A_dash_b, <<>>, TRUE, <<>>),
    ColumnSchema(Str_a_dot_b, <<>>, FALSE, <<>>),
    ColumnSchema(Str_c_d, Str_xy_ab, TRUE, <<Str_a_b, Str_ab>>),
    ColumnSchema(Str_abcdefghi, <<>>, FALSE, <<Str_A_dash_b>>),
    ColumnSchema(Str_m_n, Str_xy_ab, FALSE, <<>>) }

SeqsUpTo(S, n) == UNION {[1..m -> S] : m \in 0..n}

Schemas == SeqsUpTo(SchemaEntries, MaxSchema)

Configs ==
  { [fuzzy_min_threshold |-> f, required_thresholds |-> r, optional_thresholds |-> o] :
      f \in {0, 50, 60},
      r \in {ThresholdConfig(90, 75), ThresholdConfig(100, 96)},
      o \in {ThresholdConfig(85, 70), ThresholdConfig(96, 50)} }

UserHeaders == {Str_A_b, Str_ab, Str_abcdefghij, Str_xy, <<>>}

TopNs == (-1)..MaxTopN

NoCall == [user_header |-> <<>>]

(***************************************************************************)
(* Matcher specification: a HeaderMatcher built over a schema and a config *)
(* serves one call.                                                        *)
(***************************************************************************)
Init ==
  /\ schema \in Schemas
  /\ config \in Configs
  /\ grid = <<>>
  /\ op = "init"
  /\ args = NoCall
  /\ ret = <<>>

MapSingleHeader ==
  \E h \in UserHeaders :
    /\ op = "init"
    /\ op' = "map_single_header"
    /\ args' = [user_header |-> h]
    /\ ret' = map_single_header(h)
    /\ UNCHANGED <<schema, config, grid>>

GetTopMatches ==
  \E h \in UserHeaders, n \in TopNs :
    /\ op = "init"
    /\ op' = "get_top_matches"
    /\ args' = [user_header |-> h, top_n |-> n]
    /\ ret' = get_top_matches(h, n)
    /\ UNCHANGED <<schema, config, grid>>

Next == MapSingleHeader \/ GetTopMatches

Spec == Init /\ [][Next]_vars

(***************************************************************************)
(* Threshold-policy specification: _determine_action under every config of *)
(* ThresholdValues, valid (auto >= review) or not.                         *)
(***************************************************************************)
ThresholdValues == {0, 70, 85, 100}

Confidences == 0..100

ThresholdConfigs ==
  {ThresholdConfig(a, r) : a \in ThresholdValues, r \in ThresholdValues}

InitAction ==
  /\ schema = <<>>
  /\ config \in [fuzzy_min_threshold : {60},
                 required_thresholds : ThresholdConfigs,
                 optional_thresholds : ThresholdConfigs]
  /\ grid = <<>>
  /\ op = "init"
  /\ args = NoCall
  /\ ret = <<>>

DetermineAction ==
  \E c \in Confidences, is_required \in BOOLEAN :
    /\ op = "init"
    /\ op' = "_determine_action"
    /\ args' = [confidence |-> c, is_required |-> is_required]
    /\ ret' = _determine_action(c, is_required)
    /\ UNCHANGED <<schema, config, grid>>

NextAction == DetermineAction

SpecAction == InitAction /\ [][NextAction]_vars

(***************************************************************************)
(* Inputs of the normalization specification                               *)
(***************************************************************************)
NormAlphabet == {"a", "B", "_", "-", " "}

RECURSIVE StringsUpTo(_, _)
StringsUpTo(alphabet, n) ==
  IF n = 0 THEN {<<>>}
  ELSE LET shorter == StringsUpTo(alphabet, n - 1)
       IN  shorter \cup {Append(s, c) : s \in {t \in shorter : Len(t) = n - 1}, c \in alphabet}

NormStrings == StringsUpTo(NormAlphabet, MaxNormLen)

(***************************************************************************)
(* Normalization specification: _normalize_header applied to every string  *)
(* of NormStrings.                                                         *)
(***************************************************************************)
InitNorm ==
  /\ schema = <<>>
  /\ config = DefaultMatchingConfig
  /\ grid = <<>>
  /\ op = "init"
  /\ args = NoCall
  /\ ret = <<>>

NormalizeHeader ==
  \E s \in NormStrings :
    /\ op = "init"
    /\ op' = "_normalize_header"
    /\ args' = [user_header |-> s]
    /\ ret' = _normalize_header(s)
    /\ UNCHANGED <<schema, config, grid>>

NextNorm == NormalizeHeader

SpecNorm == InitNorm /\ [][NextNorm]_vars

(***************************************************************************)
(* Session specification: one matcher, its schema and config shared by     *)
(* workers that each evaluate map_single_header for one header of a list   *)
(* and write the result to their own slot, in any order, next to           *)
(* get_top_matches calls and to the sequential map_headers.                *)
(***************************************************************************)
SessionHeaders == {Str_A_b, Str_abcdefghij, Str_xy}

HeaderLists == SeqsUpTo(SessionHeaders, MaxHeaders)

SessionConfigs ==
  {DefaultMatchingConfig,
   [fuzzy_min_threshold |-> 0,
    required_thresholds |-> ThresholdConfig(100, 96),
    optional_thresholds |-> ThresholdConfig(96, 50)]}

InitSession ==
  /\ schema \in Schemas
  /\ config \in SessionConfigs
  /\ grid = <<>>
  /\ op = "init"
  /\ args = NoCall
  /\ ret = <<>>

\* the headers are handed out: one empty slot per header, nothing completed
StartConcurrent ==
  \E user_headers \in HeaderLists :
    /\ op = "init"
    /\ op' = "concurrent"
    /\ args' = [user_headers |-> user_headers]
    /\ ret' = [results |-> [i \in 1..Len(user_headers) |-> <<>>],
               completed |-> <<>>,
               top_matches |-> <<>>]
    /\ UNCHANGED <<schema, config, grid>>

\* a worker returns from map_single_header(user_headers[i])
EvaluateHeader ==
  \E i \in 1..MaxHeaders :
    /\ op = "concurrent"
    /\ i <= Len(args.user_headers)
    /\ ret.results[i] = <<>>
    /\ ret' = [ret EXCEPT !.results[i] = <<map_single_header(args.user_headers[i])>>,
                          !.completed = Append(@, i)]
    /\ UNCHANGED <<schema, config, grid, op, args>>

\* a worker returns from get_top_matches for one of the headers
EvaluateTopMatches ==
  \E i \in 1..MaxHeaders :
    /\ op = "concurrent"
    /\ i <= Len(args.user_headers)
    /\ ret.top_matches = <<>>
    /\ ret' = [ret EXCEPT !.top_matches = <<get_top_matches(args.user_headers[i], 3)>>]
    /\ UNCHANGED <<schema, config, grid, op, args>>

MapHeaders ==
  \E user_headers \in HeaderLists :
    /\ op = "init"
    /\ op' = "map_headers"
    /\ args' = [user_headers |-> user_headers]
    /\ ret' = map_headers(user_headers)
    /\ UNCHANGED <<schema, config, grid>>

NextSession ==
  \/ StartConcurrent
  \/ EvaluateHeader
  \/ EvaluateTopMatches
  \/ MapHeaders

SpecSession == InitSession /\ [][NextSession]_vars

(***************************************************************************)
(* Construction specification: HeaderMatcher(schema, config) for configs   *)
(* that are absent, partly given, complete, or carry thresholds out of     *)
(* order or out of range, followed by the mapping calls.                   *)
(***************************************************************************)
\* the arguments of MatchingConfig(...), None for a threshold not given
MatchingConfigArgs ==
  [fuzzy_min_threshold : {60},
   required_thresholds : {None, ThresholdConfig(90, 75), ThresholdConfig(75, 90),
                          ThresholdConfig(150, 75)},
   optional_thresholds : {None, ThresholdConfig(85, 70)}]

\* the config argument of HeaderMatcher(...): None when not given
ConfigArgs == {None} \cup MatchingConfigArgs

InitConfig ==
  /\ schema = <<>>
  /\ config = None
  /\ grid = <<>>
  /\ op = "new"
  /\ args \in [schema : Schemas, config : ConfigArgs]
  /\ ret = <<>>

\* HeaderMatcher(schema, config), the caller having built the MatchingConfig
Construct ==
  /\ op = "new"
  /\ LET config_arg == IF args.config = None THEN None
                       ELSE MatchingConfig(args.config.fuzzy_min_threshold,
                                           args.config.required_thresholds,
                                           args.config.optional_thresholds)
         self == __init__(args.schema, config_arg)
     IN  /\ schema' = self.schema
         /\ config' = self.config
  /\ op' = "init"
  /\ UNCHANGED <<grid, args, ret>>

NextConfig == Construct \/ MapSingleHeader \/ GetTopMatches

SpecConfig == InitConfig /\ [][NextConfig]_vars

(***************************************************************************)
(* Header-detection specification: _detect_header_row_count, in both       *)
(* extractors, over grids of 1..MaxRows rows.                              *)
(***************************************************************************)
IntValue == [type |-> "int", text |-> <<"3", "4">>]
TextValue == [type |-> "str", text |-> <<"N", "a", "m", "e">>]
BlankValue == [type |-> "str", text |-> <<" ">>]

Repeat(v, n) == [i \in 1..n |-> v]

\* a row of the given width: ints, then texts, then blank strings, then None
PaddedRow(width, ints, texts, blanks) ==
  LET cells == Repeat(IntValue, ints) \o Repeat(TextValue, texts) \o Repeat(BlankValue, blanks)
  IN  SubSeq(cells \o Repeat(NoneValue, width), 1, width)

\* rows of a grid 10 columns wide: an empty row, a short text row, a row with numeric cells in exactly 30% of
\* the columns, a sparse row with a number and a text, and a row whose four
\* non-empty cells are one number, one text and two blank strings
GridRows ==
  { PaddedRow(10, 0, 0, 0),
    <<TextValue>>,
    PaddedRow(10, 3, 0, 0),
    PaddedRow(10, 1, 1, 0),
    PaddedRow(10, 1, 1, 2) }

Grids == { [data |-> d] : d \in UNION {[1..n -> GridRows] : n \in 1..MaxRows} }

InitGrid ==
  /\ schema = <<>>
  /\ config = DefaultMatchingConfig
  /\ grid \in Grids
  /\ op = "init"
  /\ args = NoCall
  /\ ret = <<>>

\* _extract_sheet_headers' call in services/excel_header_extractor.py
DetectHeaderRowCount ==
  /\ op = "init"
  /\ max_len(grid.data, 1, 0) > 0
  /\ op' = "_detect_header_row_count"
  /\ args' = [max_cols |-> max_len(grid.data, 1, 0)]
  /\ ret' = _detect_header_row_count(grid.data, max_len(grid.data, 1, 0))
  /\ UNCHANGED <<schema, config, grid>>

\* the same call in header_mapper/services/excel_header_extractor.py
DetectHeaderRowCountOpenpyxl ==
  /\ op = "init"
  /\ ws_max_row(grid) # 0 /\ ws_max_column(grid) # 0
  /\ op' = "_detect_header_row_count_openpyxl"
  /\ args' = [max_cols |-> ws_max_column(grid)]
  /\ ret' = _detect_header_row_count_openpyxl(grid)
  /\ UNCHANGED <<schema, config, grid>>

NextGrid == DetectHeaderRowCount \/ DetectHeaderRowCountOpenpyxl

SpecGrid == InitGrid /\ [][NextGrid]_vars

(***************************************************************************)
(* Sheet specification: _build_merged_header and _extract_sheet_headers,   *)
(* in both extractors, over sheets two columns wide of up to MaxSheetRows  *)
(* rows, empty sheets included, with at most one merged range.             *)
(***************************************************************************)
PaddedText == [type |-> "str", text |-> <<" ", "M", " ">>]

SheetCells == {NoneValue, PaddedText, BlankValue, IntValue}

SheetRows == [1..2 -> SheetCells]

\* no rows, one row without columns, or 1..MaxSheetRows rows of two cells
SheetData == {<<>>, << <<>> >>} \cup UNION {[1..n -> SheetRows] : n \in 1..MaxSheetRows}

CellRange(min_row, max_row, min_col, max_col) ==
  [min_row |-> min_row, max_row |-> max_row, min_col |-> min_col, max_col |-> max_col]

\* the merged ranges a sheet of these rows may carry
MergedRanges(data) ==
  {<<>>}
    \cup (IF max_len(data, 1, 0) = 2
          THEN {<<CellRange(r, r, 1, 2)>> : r \in 1..Len(data)} ELSE {})
    \cup (IF max_len(data, 1, 0) = 2 /\ Len(data) >= 2
          THEN {<<CellRange(1, Len(data), c, c)>> : c \in 1..2} ELSE {})

\* a merged range keeps the value of its top-left cell only
merge_cells(data, merged_cells) ==
  [r \in 1..Len(data) |->
    [c \in 1..Len(data[r]) |->
      IF \E i \in 1..Len(merged_cells) :
           /\ in_range(merged_cells[i], r, c)
           /\ <<r, c>> # <<merged_cells[i].min_row, merged_cells[i].min_col>>
      THEN NoneValue ELSE data[r][c]]]

Sheets ==
  {[data |-> merge_cells(d, m), merged_cells |-> m] : <<d, m>> \in
     {dm \in SheetData \X UNION {MergedRanges(d) : d \in SheetData} :
        dm[2] \in MergedRanges(dm[1])}}

SheetName == <<"S", "1">>

InitSheet ==
  /\ schema = <<>>
  /\ config = DefaultMatchingConfig
  /\ grid \in Sheets
  /\ op = "init"
  /\ args = NoCall
  /\ ret = <<>>

\* _build_merged_header over the rows python-calamine returns
BuildMergedHeader ==
  \E header_row_count \in 0..MaxSheetRows, col_idx \in 0..1 :
    /\ op = "init"
    /\ header_row_count <= Len(grid.data)
    /\ col_idx < max_len(grid.data, 1, 0)
    /\ op' = "_build_merged_header"
    /\ args' = [header_row_count |-> header_row_count, column |-> col_idx + 1]
    /\ ret' = _build_merged_header(grid.data, header_row_count, col_idx)
    /\ UNCHANGED <<schema, config, grid>>

\* _build_merged_header over the openpyxl worksheet
BuildMergedHeaderOpenpyxl ==
  \E header_row_count \in 0..MaxSheetRows, column \in 1..2 :
    /\ op = "init"
    /\ header_row_count <= ws_max_row(grid)
    /\ column <= ws_max_column(grid)
    /\ op' = "_build_merged_header_openpyxl"
    /\ args' = [header_row_count |-> header_row_count, column |-> column]
    /\ ret' = _build_merged_header_openpyxl(grid, header_row_count, column)
    /\ UNCHANGED <<schema, config, grid>>

ExtractSheetHeaders ==
  /\ op = "init"
  /\ op' = "_extract_sheet_headers"
  /\ args' = [sheet_name |-> SheetName]
  /\ ret' = _extract_sheet_headers(grid.data, SheetName)
  /\ UNCHANGED <<schema, config, grid>>

ExtractSheetHeadersOpenpyxl ==
  /\ op = "init"
  /\ op' = "_extract_sheet_headers_openpyxl"
  /\ args' = [sheet_name |-> SheetName]
  /\ ret' = _extract_sheet_headers_openpyxl(grid, SheetName)
  /\ UNCHANGED <<schema, config, grid>>

NextSheet ==
  \/ BuildMergedHeader
  \/ BuildMergedHeaderOpenpyxl
  \/ ExtractSheetHeaders
  \/ ExtractSheetHeadersOpenpyxl

SpecSheet == InitSheet /\ [][NextSheet]_vars

(***************************************************************************)
(* Re-detection specification: the header row count of a sheet, a change   *)
(* of the sheet confined to its rows at index 5 and beyond, and the count  *)
(* of the changed sheet, in both extractors.                               *)
(***************************************************************************)
\* a row whose only value sits in the tenth column
WideRow == Repeat(NoneValue, 9) \o <<TextValue>>

\* rows of the scanned window: a text cell, two numbers, nothing
HeadRows == {<<TextValue>>, <<IntValue, IntValue>>, <<>>}

\* rows at index 5 and beyond
TailRows == {<<TextValue>>, WideRow}

EditGrids ==
  {[data |-> d] : d \in UNION {[1..n -> HeadRows \cup TailRows] : n \in 1..MaxRows}}

InitEdit ==
  /\ schema = <<>>
  /\ config = DefaultMatchingConfig
  /\ grid \in EditGrids
  /\ \A i \in 1..Len(grid.data) :
       IF i <= 5 THEN grid.data[i] \in HeadRows ELSE grid.data[i] \in TailRows
  /\ \E i \in 1..Len(grid.data) : grid.data[i] # <<>>
  /\ op = "init"
  /\ args = NoCall
  /\ ret = <<>>

\* the sheet changes between two extractions: a row at index 5 or beyond is
\* replaced, appended or removed
ModifyTailRows ==
  /\ op \in {"_detect_header_row_count", "_detect_header_row_count_openpyxl"}
  /\ \/ \E i \in 6..MaxRows, row \in TailRows :
          /\ i <= Len(grid.data)
          /\ row # grid.data[i]
          /\ grid' = [grid EXCEPT !.data[i] = row]
     \/ \E row \in TailRows :
          /\ 5 <= Len(grid.data) /\ Len(grid.data) < MaxRows
          /\ grid' = [grid EXCEPT !.data = Append(@, row)]
     \/ /\ Len(grid.data) >= 6
        /\ grid' = [grid EXCEPT !.data = SubSeq(@, 1, Len(@) - 1)]
  /\ op' = "modify_tail_rows"
  /\ args' = [extractor |-> op, max_cols |-> args.max_cols, header_row_count |-> ret]
  /\ UNCHANGED <<schema, config, ret>>

\* the next extraction of the changed sheet, by the same extractor
DetectHeaderRowCountAgain ==
  /\ op = "modify_tail_rows"
  /\ args.extractor = "_detect_header_row_count"
  /\ max_len(grid.data, 1, 0) > 0
  /\ op' = "detect_again"
  /\ ret' = _detect_header_row_count(grid.data, max_len(grid.data, 1, 0))
  /\ UNCHANGED <<schema, config, grid, args>>

DetectHeaderRowCountOpenpyxlAgain ==
  /\ op = "modify_tail_rows"
  /\ args.extractor = "_detect_header_row_count_openpyxl"
  /\ ws_max_row(grid) # 0 /\ ws_max_column(grid) # 0
  /\ op' = "detect_again"
  /\ ret' = _detect_header_row_count_openpyxl(grid)
  /\ UNCHANGED <<schema, config, grid, args>>

NextEdit ==
  \/ DetectHeaderRowCount
  \/ DetectHeaderRowCountOpenpyxl
  \/ ModifyTailRows
  \/ DetectHeaderRowCountAgain
  \/ DetectHeaderRowCountOpenpyxlAgain

SpecEdit == InitEdit /\ [][NextEdit]_vars

(***************************************************************************)
(* Reference notions used by the properties                                *)
(***************************************************************************)
MinOf(S) == CHOOSE k \in S : \A j \in S : k <= j

SchemaKeys == 1..Len(schema)

\* entries whose normalized canonical name equals the normalized header
ExactKeys(h) ==
  {k \in SchemaKeys : _normalize_header(schema[k].canonical_name) = _normalize_header(h)}

\* aliases of entry k whose normalized form equals the normalized header
AliasHits(h, k) ==
  {a \in 1..Len(schema[k].aliases) :
     _normalize_header(schema[k].aliases[a]) = _normalize_header(h)}

AliasKeys(h) == {k \in SchemaKeys : AliasHits(h, k) # {}}

\* the candidate pool of the fuzzy layer: entry k contributes 2 + #aliases
\* candidates (canonical name, aliases in order, description)
PoolSize(k) == 2 + Len(schema[k].aliases)

RECURSIVE PoolOffset(_)
PoolOffset(k) == IF k = 1 THEN 0 ELSE PoolOffset(k - 1) + PoolSize(k - 1)

PoolLen == IF schema = <<>> THEN 0 ELSE PoolOffset(Len(schema)) + PoolSize(Len(schema))

PoolKey(i) == CHOOSE k \in SchemaKeys : PoolOffset(k) < i /\ i <= PoolOffset(k) + PoolSize(k)

PoolScore(h, i) ==
  LET k == PoolKey(i)
      p == i - PoolOffset(k)
      n == _normalize_header(h)
  IN  IF p = 1 THEN ratio(n, _normalize_header(schema[k].canonical_name))
      ELSE IF p = PoolSize(k)
           THEN token_set_ratio(n, _normalize_header(schema[k].description)) \div 2
           ELSE ratio(n, _normalize_header(schema[k].aliases[p - 1]))

\* the first-enumerated candidate of maximum score
PoolWinner(h) ==
  CHOOSE i \in 1..PoolLen :
    /\ \A j \in 1..PoolLen : PoolScore(h, j) <= PoolScore(h, i)
    /\ \A j \in 1..(i - 1) : PoolScore(h, j) < PoolScore(h, i)

FuzzyApplies(h) ==
  \E i \in 1..PoolLen : PoolScore(h, i) >= config.fuzzy_min_threshold

NoMatchRecord(h) ==
  [user_column |-> h, canonical_column |-> <<>>, confidence |-> 0, match_type |-> "NoMatch",
   match_details |-> <<"No suitable match found">>, recommended_action |-> "ManualMap"]

\* max(canonical-name score, best alias score) of entry k
EntryBestScore(h, k) ==
  LET n == _normalize_header(h)
      scores == {ratio(n, _normalize_header(schema[k].canonical_name))}
                  \cup {ratio(n, _normalize_header(schema[k].aliases[a])) :
                          a \in 1..Len(schema[k].aliases)}
  IN  CHOOSE x \in scores : \A y \in scores : y <= x

QualifyingKeys(h) == {k \in SchemaKeys : EntryBestScore(h, k) >= config.fuzzy_min_threshold}

\* the results of the last call
Results ==
  IF op = "map_single_header" THEN {ret}
  ELSE IF op = "get_top_matches" THEN {ret[i] : i \in 1..Len(ret)}
  ELSE {}

Thresholds(is_required) ==
  IF is_required THEN config.required_thresholds ELSE config.optional_thresholds

\* entries a result's canonical_column names
NamedKeys(r) == {k \in SchemaKeys : schema[k].canonical_name = r.canonical_column}

(***************************************************************************)
(* Properties                                                              *)
(***************************************************************************)
\* C1: a header whose normalized form equals a normalized canonical name is
\* mapped as ExactMatch with confidence 1.0 and AutoMap to the first such
\* entry in schema order, also when an alias of some entry equals it.
ExactLayerWins ==
  (op = "map_single_header" /\ ExactKeys(args.user_header) # {}) =>
    /\ ret.match_type = "ExactMatch"
    /\ ret.confidence = 100
    /\ ret.recommended_action = "AutoMap"
    /\ ret.canonical_column = schema[MinOf(ExactKeys(args.user_header))].canonical_name
    /\ ret.user_column = args.user_header

\* an exact hit preceded in schema order by an entry with a matching alias
ExactBeatsEarlierAlias ==
  /\ op = "map_single_header"
  /\ ExactKeys(args.user_header) # {}
  /\ \E k \in AliasKeys(args.user_header) : k < MinOf(ExactKeys(args.user_header))
  /\ ret.match_type = "ExactMatch"

\* C2: a header equal (normalized) to no canonical name but to an alias is
\* mapped as AliasMatch with confidence 0.95 and AutoMap to the entry of the
\* first matching alias in schema order, then alias order.
AliasLayerFirstHit ==
  (op = "map_single_header" /\ ExactKeys(args.user_header) = {}
     /\ AliasKeys(args.user_header) # {}) =>
    LET k == MinOf(AliasKeys(args.user_header))
        a == MinOf(AliasHits(args.user_header, k))
    IN  /\ ret.match_type = "AliasMatch"
        /\ ret.confidence = 95
        /\ ret.recommended_action = "AutoMap"
        /\ ret.canonical_column = schema[k].canonical_name
        /\ ret.match_details = <<"Matched alias", schema[k].aliases[a]>>

\* an alias hit where two entries with different canonical names both match
AliasHitAmongSeveral ==
  /\ op = "map_single_header"
  /\ ExactKeys(args.user_header) = {}
  /\ \E j, k \in AliasKeys(args.user_header) :
       j < k /\ schema[j].canonical_name # schema[k].canonical_name
  /\ ret.match_type = "AliasMatch"

\* C3 as stated: every result has confidence 1.0 iff ExactMatch, confidence
\* 0.95 iff AliasMatch, and match_type NoMatch iff canonical_column is empty.
ResultEquivalences ==
  \A r \in Results :
    /\ (r.confidence = 100) <=> (r.match_type = "ExactMatch")
    /\ (r.confidence = 95) <=> (r.match_type = "AliasMatch")
    /\ (r.match_type = "NoMatch") <=> (r.canonical_column = <<>>)

\* C3 amended: ExactMatch implies confidence 1.0, AliasMatch implies
\* confidence 0.95 (not conversely), and match_type is NoMatch iff
\* canonical_column is empty.
ResultImplications ==
  \A r \in Results :
    /\ (r.match_type = "ExactMatch") => (r.confidence = 100)
    /\ (r.match_type = "AliasMatch") => (r.confidence = 95)
    /\ (r.match_type = "NoMatch") <=> (r.canonical_column = <<>>)

\* an ExactMatch at confidence 1.0 over a schema in which another header
\* scores a FuzzyMatch
ExactResultAtFullConfidence ==
  /\ op = "map_single_header"
  /\ ret.match_type = "ExactMatch"
  /\ ret.confidence = 100
  /\ ret.canonical_column # <<>>
  /\ Len(schema) = 2

\* C5 as stated: for ExactMatch, AliasMatch and FuzzyMatch results the
\* recommended action is determine_action(confidence, required flag of the
\* matched entry) under the configured thresholds.
ActionFollowsConfidence ==
  (op = "map_single_header" /\ ret.match_type # "NoMatch") =>
    \E k \in NamedKeys(ret) :
      ret.recommended_action = _determine_action(ret.confidence, schema[k].required)

\* C5 amended: a FuzzyMatch carries determine_action(confidence, required);
\* ExactMatch and AliasMatch always carry AutoMap, which is what the
\* thresholds give for every ExactMatch and for an AliasMatch exactly when
\* the entry's auto_map_threshold is at most 0.95.
ActionByLayer ==
  (op = "map_single_header") =>
    /\ (ret.match_type = "FuzzyMatch") =>
         \E k \in NamedKeys(ret) :
           ret.recommended_action = _determine_action(ret.confidence, schema[k].required)
    /\ (ret.match_type \in {"ExactMatch", "AliasMatch"}) =>
         ret.recommended_action = "AutoMap"
    /\ (ret.match_type = "ExactMatch") =>
         \A k \in NamedKeys(ret) :
           _determine_action(ret.confidence, schema[k].required) = "AutoMap"
    /\ (ret.match_type = "AliasMatch") =>
         \A k \in NamedKeys(ret) :
           (_determine_action(ret.confidence, schema[k].required) = "AutoMap")
             <=> (Thresholds(schema[k].required).auto_map_threshold <= 95)

\* an alias result recommended AutoMap below the entry's auto-map threshold
AliasAutoMapBelowThreshold ==
  /\ op = "map_single_header"
  /\ ret.match_type = "AliasMatch"
  /\ ret.recommended_action = "AutoMap"
  /\ \A k \in NamedKeys(ret) : Thresholds(schema[k].required).auto_map_threshold > 95

\* C6: _determine_action reads required_thresholds for required columns and
\* optional_thresholds otherwise; with auto_map_threshold >= review_threshold
\* it returns AutoMap iff confidence >= auto, Review iff review <= confidence
\* < auto, ManualMap iff confidence < review, and never a less favourable
\* action for a larger confidence.
ActionRank(a) == CASE a = "ManualMap" -> 0 [] a = "Review" -> 1 [] a = "AutoMap" -> 2

ThresholdPolicy ==
  (op = "_determine_action") =>
    LET t == Thresholds(args.is_required)
        c == args.confidence
    IN  (t.auto_map_threshold >= t.review_threshold) =>
          /\ (ret = "AutoMap") <=> (c >= t.auto_map_threshold)
          /\ (ret = "Review") <=> (t.review_threshold <= c /\ c < t.auto_map_threshold)
          /\ (ret = "ManualMap") <=> (c < t.review_threshold)
          /\ \A smaller \in 0..c :
               ActionRank(_determine_action(smaller, args.is_required)) <= ActionRank(ret)

\* a call exactly at the auto-map threshold of a required column whose
\* optional thresholds would give another action
AutoMapAtRequiredBoundary ==
  /\ op = "_determine_action"
  /\ args.is_required
  /\ config.required_thresholds.auto_map_threshold > config.required_thresholds.review_threshold
  /\ args.confidence = config.required_thresholds.auto_map_threshold
  /\ args.confidence < config.optional_thresholds.review_threshold
  /\ ret = "AutoMap"

\* C7: without exact or alias equality, the first-enumerated candidate of
\* maximum score over the pool (canonical name, aliases in order, halved
\* description score, per entry in schema order) wins; if its score reaches
\* fuzzy_min_threshold the result is FuzzyMatch with its canonical column,
\* confidence score/100 and determine_action(score/100, its required flag).
FuzzyWinner ==
  (op = "map_single_header" /\ ExactKeys(args.user_header) = {}
     /\ AliasKeys(args.user_header) = {} /\ PoolLen > 0) =>
    LET i == PoolWinner(args.user_header)
        score == PoolScore(args.user_header, i)
        k == PoolKey(i)
    IN  (score >= config.fuzzy_min_threshold) =>
          /\ ret.match_type = "FuzzyMatch"
          /\ ret.canonical_column = schema[k].canonical_name
          /\ ret.confidence = score
          /\ ret.recommended_action = _determine_action(score, schema[k].required)
          /\ ret.user_column = args.user_header

\* a fuzzy result decided by the tie rule: a later candidate of another
\* entry, with another canonical name and required flag, has the same score
FuzzyTieBrokenByOrder ==
  /\ op = "map_single_header"
  /\ ret.match_type = "FuzzyMatch"
  /\ ret.confidence > 0
  /\ LET i == PoolWinner(args.user_header)
     IN  \E j \in (i + 1)..PoolLen :
           /\ PoolScore(args.user_header, j) = PoolScore(args.user_header, i)
           /\ schema[PoolKey(j)].canonical_name # schema[PoolKey(i)].canonical_name
           /\ schema[PoolKey(j)].required # schema[PoolKey(i)].required

\* C8: map_single_header returns the no-match record (empty canonical
\* column, confidence 0.0, NoMatch, ManualMap, user_column the input) exactly
\* when there is no exact equality, no alias equality and no fuzzy candidate
\* scoring at least fuzzy_min_threshold; with an empty schema it always does.
NoMatchExactlyWhenNothingApplies ==
  (op = "map_single_header") =>
    /\ (ret = NoMatchRecord(args.user_header)) <=>
         (/\ ExactKeys(args.user_header) = {}
          /\ AliasKeys(args.user_header) = {}
          /\ ~FuzzyApplies(args.user_header))
    /\ (ret.match_type = "NoMatch") <=> (ret = NoMatchRecord(args.user_header))
    /\ (schema = <<>>) => (ret = NoMatchRecord(args.user_header))

\* a no-match over a non-empty schema whose best candidate misses the floor
NoMatchBelowFloor ==
  /\ op = "map_single_header"
  /\ schema # <<>>
  /\ ret.match_type = "NoMatch"
  /\ \E i \in 1..PoolLen : PoolScore(args.user_header, i) > 0

\* C9 as stated: for every integer top_n the list is sorted by confidence
\* non-increasing, has at most top_n entries, every confidence is at least
\* fuzzy_min_threshold/100 and is max(canonical score, best alias score)/100
\* of a schema entry, each entry appearing at most once.
TopMatchesDescribe(limit) ==
  /\ \A i \in 1..(Len(ret) - 1) : ret[i].confidence >= ret[i + 1].confidence
  /\ Len(ret) <= limit
  /\ \A i \in 1..Len(ret) : ret[i].confidence >= config.fuzzy_min_threshold
  /\ \E f \in [1..Len(ret) -> SchemaKeys] :
       /\ \A i, j \in 1..Len(ret) : (i # j) => (f[i] # f[j])
       /\ \A i \in 1..Len(ret) :
            /\ ret[i].canonical_column = schema[f[i]].canonical_name
            /\ ret[i].confidence = EntryBestScore(args.user_header, f[i])
            /\ ret[i].recommended_action =
                 _determine_action(ret[i].confidence, schema[f[i]].required)

TopMatchesBoundedByTopN ==
  (op = "get_top_matches") => TopMatchesDescribe(args.top_n)

\* C9 amended: the same, with at most top_n entries for top_n >= 0; for a
\* negative top_n the list holds the qualifying entries less the last -top_n.
TopMatchesBoundedBySlice ==
  (op = "get_top_matches") =>
    LET q == Cardinality(QualifyingKeys(args.user_header))
    IN  /\ TopMatchesDescribe(IF args.top_n >= 0 THEN args.top_n ELSE Max(0, q + args.top_n))
        /\ Len(ret) = (IF args.top_n >= 0 THEN Min(args.top_n, q) ELSE Max(0, q + args.top_n))

\* a ranked answer whose order differs from schema order: the better entry
\* comes later in the schema
TopMatchesReordered ==
  /\ op = "get_top_matches"
  /\ args.top_n = 2
  /\ Len(ret) = 2
  /\ ret[1].confidence > ret[2].confidence
  /\ Len(schema) = 2
  /\ ret[1].canonical_column = schema[2].canonical_name
  /\ ret[1].canonical_column # ret[2].canonical_column

\* the grid as the claim reads it: width, rows scanned, per-row facts
GridWidth == max_len(grid.data, 1, 0)

ScannedRows == 0..(Min(5, Len(grid.data)) - 1)

CellAt(i, c) == IF c <= Len(grid.data[i + 1]) THEN grid.data[i + 1][c] ELSE NoneValue

NonEmptyCount(i) == Cardinality({c \in 1..GridWidth : CellAt(i, c) # NoneValue})

HasNumeric(i) ==
  \E c \in 1..GridWidth : CellAt(i, c).type \in {"int", "float", "datetime", "bool"}

HasText(i) ==
  \E c \in 1..GridWidth : CellAt(i, c).type = "str" /\ strip(CellAt(i, c).text) # <<>>

DataRows == {i \in ScannedRows : HasNumeric(i) /\ 10 * NonEmptyCount(i) > 3 * GridWidth}

TextRows == {i \in ScannedRows : HasText(i)}

MaxOf(S) == CHOOSE k \in S : \A j \in S : j <= k

ReferenceHeaderRowCount ==
  IF DataRows # {} THEN Max(1, MinOf(DataRows))
  ELSE IF TextRows # {} THEN Max(1, MaxOf(TextRows) + 1)
  ELSE 1

\* C10: for a non-empty grid the header row count is max(1, d) for the first
\* scanned row d (of the first min(5, rows)) holding a numeric cell and more
\* non-empty cells than 30% of the width; without such a row it is t + 1 for
\* the last scanned row t holding non-empty text, and 1 without any.
HeaderRowCountReference ==
  (op \in {"_detect_header_row_count", "_detect_header_row_count_openpyxl"}) =>
    ret = ReferenceHeaderRowCount

\* no data row within the window: the count comes from the last text row,
\* which is followed by a sparse numeric row and preceded by an empty one
HeaderCountFromTextRows ==
  /\ op = "_detect_header_row_count"
  /\ DataRows = {}
  /\ TextRows # {}
  /\ ret = MaxOf(TextRows) + 1
  /\ ret >= 2
  /\ \E i \in ScannedRows : i > MaxOf(TextRows) /\ HasNumeric(i)
  /\ \E i \in ScannedRows : i < MaxOf(TextRows) /\ NonEmptyCount(i) = 0
  /\ Len(grid.data) > 5

\* C4: normalization is idempotent: normalizing the output of
\* _normalize_header again returns it unchanged.
IdempotentNormalization ==
  op = "_normalize_header" => _normalize_header(ret) = ret

(***************************************************************************)
(* Merged headers                                                          *)
(***************************************************************************)
\* the value of the cell in row r, column c (both from 1), None outside
ValueAt(r, c) ==
  IF r <= Len(grid.data) /\ c <= Len(grid.data[r]) THEN grid.data[r][c] ELSE NoneValue

\* str(value) trimmed; empty for None
TrimmedText(value) == IF value = NoneValue THEN <<>> ELSE strip(value.text)

\* the merged spans of the grid handed to the operation: the worksheet's for
\* openpyxl, none for the bare list of rows
SpansOf(operation) ==
  IF operation \in {"_build_merged_header_openpyxl", "_extract_sheet_headers_openpyxl"}
  THEN {grid.merged_cells[i] : i \in 1..Len(grid.merged_cells)}
  ELSE {}

EffectiveText(spans, r, c) ==
  LET holding == {sp \in spans : in_range(sp, r, c)}
  IN  IF holding # {}
      THEN LET sp == CHOOSE sp \in holding : TRUE
           IN  TrimmedText(ValueAt(sp.min_row, sp.min_col))
      ELSE TrimmedText(ValueAt(r, c))

\* the texts of the rows in S, in ascending row order, one space in between
RECURSIVE JoinRows(_, _, _)
JoinRows(spans, S, c) ==
  IF S = {} THEN <<>>
  ELSE LET r == MinOf(S)
       IN  IF S = {r} THEN EffectiveText(spans, r, c)
           ELSE EffectiveText(spans, r, c) \o <<" ">> \o JoinRows(spans, S \ {r}, c)

ReferenceMergedHeader(spans, header_row_count, c) ==
  JoinRows(spans, {r \in 1..header_row_count : EffectiveText(spans, r, c) # <<>>}, c)

\* C11: build_merged_header returns the non-empty trimmed effective texts of
\* the column's cells in rows 0..header_row_count-1, top to bottom, joined by
\* exactly one space; a cell inside a merged span takes the trimmed text of
\* the span's top-left cell (empty when that cell is empty), any other cell
\* its own trimmed text, and empty texts add neither text nor separator.
MergedHeaderReference ==
  (op \in {"_build_merged_header", "_build_merged_header_openpyxl"}) =>
    ret = ReferenceMergedHeader(SpansOf(op), args.header_row_count, args.column)

\* a vertical span whose lower cell repeats the trimmed top-left text
MergedHeaderRepeatsSpanText ==
  /\ op = "_build_merged_header_openpyxl"
  /\ args.header_row_count = 2
  /\ \E sp \in SpansOf(op) :
       /\ in_range(sp, 2, args.column)
       /\ sp.min_row = 1
       /\ ValueAt(1, args.column) = PaddedText
  /\ ret = <<"M", " ", "M">>

\* the columns of the grid whose merged header over the header rows is non-empty
HeaderColumns(spans, header_row_count) ==
  {c \in 1..GridWidth : ReferenceMergedHeader(spans, header_row_count, c) # <<>>}

\* the columns whose header cells are all empty
EmptyColumns(spans, header_row_count) ==
  {c \in 1..GridWidth : \A r \in 1..header_row_count : EffectiveText(spans, r, c) = <<>>}

\* the i-th smallest member of a set of columns
NthColumn(columns, i) ==
  CHOOSE c \in columns : Cardinality({d \in columns : d < c}) = i - 1

\* C12: the headers list holds no entry that trims to empty and lists, in
\* ascending column order, exactly one entry per column whose merged header
\* is non-empty; a column whose header cells are all empty is absent, and
\* the list is then strictly shorter than the column count.
HeadersListReference ==
  (op \in {"_extract_sheet_headers", "_extract_sheet_headers_openpyxl"}) =>
    LET spans == SpansOf(op)
        columns == HeaderColumns(spans, ret.header_row_count)
    IN  /\ \A i \in 1..Len(ret.headers) : strip(ret.headers[i]) # <<>>
        /\ Len(ret.headers) = Cardinality(columns)
        /\ \A i \in 1..Len(ret.headers) :
             ret.headers[i] =
               ReferenceMergedHeader(spans, ret.header_row_count, NthColumn(columns, i))
        /\ EmptyColumns(spans, ret.header_row_count) \cap columns = {}
        /\ (EmptyColumns(spans, ret.header_row_count) # {}) => Len(ret.headers) < GridWidth

\* the first column has only empty header cells, one of them a blank string,
\* and the only entry of the list is the header of the second column
HeadersSkipEmptyColumn ==
  /\ op = "_extract_sheet_headers_openpyxl"
  /\ GridWidth = 2
  /\ ret.header_row_count = 2
  /\ EmptyColumns(SpansOf(op), 2) = {1}
  /\ ValueAt(1, 1) = BlankValue
  /\ Len(ret.headers) = 1
  /\ ret.headers[1] = ReferenceMergedHeader(SpansOf(op), 2, 2)

\* C13: extracting from an empty grid (no rows, or no columns in any row)
\* yields header_row_count = 0 and no headers, and header_row_count = 0
\* occurs for such grids only.
EmptyGridExactlyZeroHeaderRows ==
  (op \in {"_extract_sheet_headers", "_extract_sheet_headers_openpyxl"}) =>
    /\ (GridWidth = 0) => (ret.header_row_count = 0 /\ ret.headers = <<>>)
    /\ (ret.header_row_count = 0) => (GridWidth = 0)

\* the part that holds of the extractor over the list of rows
EmptyRowsExactlyZeroHeaderRows ==
  (op = "_extract_sheet_headers") =>
    /\ (GridWidth = 0) => (ret.header_row_count = 0 /\ ret.headers = <<>>)
    /\ (ret.header_row_count = 0) => (GridWidth = 0)

\* the worksheet extractor never reports 0 header rows
WorksheetNeverZeroHeaderRows ==
  (op = "_extract_sheet_headers_openpyxl") =>
    /\ ret.header_row_count >= 1
    /\ (GridWidth = 0) => ret = SheetHeaders(SheetName, <<>>, 1)

(***************************************************************************)
(* Concurrent evaluation                                                   *)
(***************************************************************************)
AllEvaluated ==
  /\ op = "concurrent"
  /\ \A i \in 1..Len(ret.results) : ret.results[i] # <<>>

\* the slots read back by index
Collected == [i \in 1..Len(ret.results) |-> ret.results[i][1]]

IsSequentialResult(results) ==
  /\ results = map_headers(args.user_headers)
  /\ Len(results) = Len(args.user_headers)
  /\ \A i \in 1..Len(results) :
       /\ results[i] = map_single_header(args.user_headers[i])
       /\ results[i].user_column = args.user_headers[i]

CollectedIsSequential ==
  /\ AllEvaluated => IsSequentialResult(Collected)
  /\ (op = "map_headers") => IsSequentialResult(ret)

\* C14: map_single_header and get_top_matches leave the schema store and
\* the config unchanged and write only their own result, so the results of
\* headers evaluated in any order, read back by index, are those of the
\* sequential map_headers: same length, entry i is
\* map_single_header(headers[i]) and carries headers[i] as user_column.
ConcurrentAsSequential ==
  /\ []CollectedIsSequential
  /\ [][ /\ schema' = schema
         /\ config' = config
         /\ (op = "concurrent") =>
              /\ args' = args
              /\ \A i \in 1..Len(ret.results) :
                   ret.results[i] # <<>> => ret'.results[i] = ret.results[i]
              /\ Cardinality({i \in 1..Len(ret.results) :
                                ret'.results[i] # ret.results[i]}) <= 1
              /\ (ret'.results # ret.results) => ret'.top_matches = ret.top_matches ]_vars

\* the second header was evaluated before the first and the results differ
EvaluatedOutOfOrder ==
  /\ AllEvaluated
  /\ ret.completed = <<2, 1>>
  /\ ret.top_matches # <<>>
  /\ Collected[1].match_type # Collected[2].match_type
  /\ Collected = map_headers(args.user_headers)

(***************************************************************************)
(* Configuration                                                           *)
(***************************************************************************)
ValidThresholds(thresholds) ==
  /\ thresholds # None
  /\ 0 <= thresholds.review_threshold
  /\ thresholds.review_threshold <= thresholds.auto_map_threshold
  /\ thresholds.auto_map_threshold <= 100

\* a config argument that is given, with both threshold pairs, each valid
WellConfigured(config_arg) ==
  /\ config_arg # None
  /\ ValidThresholds(config_arg.required_thresholds)
  /\ ValidThresholds(config_arg.optional_thresholds)

\* C15: a session whose threshold configuration is missing (no
\* MatchingConfig, or one without the required or optional thresholds) or
\* invalid (auto below review, a threshold outside [0, 1]) ends in a
\* ConfigurationError at construction: no matcher is constructed from such
\* arguments and no mapping result is produced under such a configuration.
ConfigurationErrorAtConstruction ==
  /\ (op = "init") => WellConfigured(args.config)
  /\ (op \in {"map_single_header", "get_top_matches"}) =>
       /\ ValidThresholds(config.required_thresholds)
       /\ ValidThresholds(config.optional_thresholds)

\* what the constructor does instead: every argument yields a matcher, a
\* missing config or threshold pair replaced by the defaults
ConstructionAlwaysSucceeds ==
  (op = "init") =>
    /\ (args.config = None) => config = DefaultMatchingConfig
    /\ (args.config # None) =>
         /\ config.required_thresholds =
              (IF args.config.required_thresholds = None THEN ThresholdConfig(90, 75)
               ELSE args.config.required_thresholds)
         /\ config.optional_thresholds =
              (IF args.config.optional_thresholds = None THEN ThresholdConfig(85, 70)
               ELSE args.config.optional_thresholds)

(***************************************************************************)
(* The scanned window                                                      *)
(***************************************************************************)
Detected == op \in {"_detect_header_row_count", "_detect_header_row_count_openpyxl", "detect_again"}

HeaderRowsWithinGrid ==
  Detected => (1 <= ret /\ ret <= Min(5, Len(grid.data)))

\* C16 as stated: for a grid with a row and a column the header row count h
\* satisfies 1 <= h <= min(5, rows), and h is unchanged by any modification
\* of rows at index 5 or beyond.
HeaderRowsUnchangedByTailRows ==
  /\ HeaderRowsWithinGrid
  /\ (op = "detect_again") => ret = args.header_row_count

\* C16, amended: 1 <= h <= min(5, rows), so no header row lies outside the
\* grid, and h is unchanged by a modification of rows at index 5 or beyond
\* that leaves the column width of the grid (its greatest row length)
\* unchanged.
HeaderRowsUnchangedAtSameWidth ==
  /\ HeaderRowsWithinGrid
  /\ (op = "detect_again" /\ GridWidth = args.max_cols) => ret = args.header_row_count

\* five text rows and a sixth text row that came with the change, the width
\* staying the same: the count stays at 5
HeaderRowsKeptAfterTailEdit ==
  /\ op = "detect_again"
  /\ GridWidth = args.max_cols
  /\ Len(grid.data) = 6
  /\ grid.data[6] = <<TextValue>>
  /\ ret = 5
  /\ ret = args.header_row_count

(***************************************************************************)
(* Cascade and ranked query                                                *)
(***************************************************************************)
\* a NoMatch result has an empty ranked list for every top_n
NoMatchHasNoTopMatches ==
  (op = "map_single_header" /\ ret.match_type = "NoMatch") =>
    \A n \in TopNs : get_top_matches(args.user_header, n) = <<>>

\* a non-empty ranked list for top_n >= 1 comes with a match
TopMatchesImplyMatch ==
  (op = "get_top_matches" /\ args.top_n >= 1 /\ ret # <<>>) =>
    map_single_header(args.user_header).match_type # "NoMatch"

\* C17 as stated: NoMatch implies an empty ranked list for every n, and a
\* non-empty ranked list for n >= 1 implies a result other than NoMatch
\* whose confidence is at least that of the first ranked entry.
CascadeDominatesTopMatch ==
  /\ NoMatchHasNoTopMatches
  /\ TopMatchesImplyMatch
  /\ (op = "get_top_matches" /\ args.top_n >= 1 /\ ret # <<>>) =>
       map_single_header(args.user_header).confidence >= ret[1].confidence

\* C17, amended: NoMatch implies an empty ranked list for every n; a
\* non-empty ranked list for n >= 1 implies a result other than NoMatch,
\* whose confidence is at least that of the first ranked entry unless the
\* result is an AliasMatch: that one has confidence 0.95 while the first
\* ranked entry has confidence 1.0.
CascadeDominatesUnlessAlias ==
  /\ NoMatchHasNoTopMatches
  /\ TopMatchesImplyMatch
  /\ (op = "get_top_matches" /\ args.top_n >= 1 /\ ret # <<>>) =>
       LET result == map_single_header(args.user_header)
       IN  IF result.match_type = "AliasMatch"
           THEN result.confidence = 95 /\ ret[1].confidence = 100
           ELSE result.confidence >= ret[1].confidence

\* a fuzzy result and a ranked list led by the same score, reached through
\* an alias that is close to the header without being equal to it
RankedAliasScoreIsFuzzyResult ==
  /\ op = "get_top_matches"
  /\ args.top_n >= 1
  /\ ret # <<>>
  /\ map_single_header(args.user_header).match_type = "FuzzyMatch"
  /\ map_single_header(args.user_header).confidence = ret[1].confidence
  /\ ret[1].confidence < 100
  /\ ret[1].match_details[2] # ret[1].canonical_column

====
